---- MODULE Spec2Model ----
(***************************************************************************)
(* Model of src/app.py: reconciliation of bank receipts ("comprovantes")   *)
(* against an accounts-payable ledger ("contas a pagar").                  *)
(*                                                                         *)
(* Conventions.                                                            *)
(*   - A DataFrame is a sequence of records; a row's pandas index label is *)
(*     kept in the row (idx for df_conciliado, ix for df_resolved).        *)
(*   - "Código" values are strings in the program; they are modelled by    *)
(*     integers whose order is the strings' sort order (groupby sorts its  *)
(*     keys).  "Número do Documento" values are digit strings, modelled by *)
(*     positive integers; None is 0.  Dates are day numbers; NaT is 0.     *)
(***************************************************************************)
EXTENDS Integers, Sequences, FiniteSets, TLC

VARIABLES
    pc,                  \* position of the run
    valor_text,          \* raw "Valor" cell of the ledger row (characters)
    valor_impresso,      \* the amount as printed on the receipt page (valor_match.group(1))
    df_contas_std,       \* standardized ledger
    df_comprovantes,     \* receipt pool
    match_method,        \* st.selectbox "método de correspondência"
    threshold,           \* st.slider "limiar"
    ratio,               \* token_set_ratio of the two distinct names, as the library returned it
    df_conciliado,       \* candidate associations
    codigo_todo,         \* groups of grouped_codigo not yet visited
    resolved_rows,       \* resolve_ambiguities.resolved_rows
    df_resolved,         \* resolve_ambiguities.df_resolved
    duplicated_doc,      \* resolve_ambiguities.duplicated_doc
    doc_todo,            \* groups of grouped_doc not yet visited
    decisions,           \* log of the selectboxes rendered, in order
    df_conciliado_final, \* the reconciled table
    df_receipts_sem_conta, \* "Comprovantes SEM Correspondência" (positions in the pool)
    df_contas_sem_comprovante \* "Contas a Pagar SEM Comprovante"

vars == <<pc, valor_text, valor_impresso, df_contas_std,
          df_comprovantes, match_method, threshold, ratio, df_conciliado,
          codigo_todo, resolved_rows, df_resolved, duplicated_doc, doc_todo,
          decisions, df_conciliado_final, df_receipts_sem_conta, df_contas_sem_comprovante>>

----------------------------------------------------------------------------
(* Bounds and input domains *)

MaxRows == 3
MaxPayables == 2
MaxReceipts == 2
MaxLen == 7

None == 0
NaT == 0
Codigos == {1, 2}
Valores == {100, 250}
Empresas == {"acme", "acme ltda"}
Fornecedores == {"bob", "bob silva"}
\* values token_set_ratio returns for two distinct names (even, so that the
\* average of two of them is a whole number)
Scores == {60, 90}
\* positions of the st.slider (min_value=50, max_value=100)
Thresholds == {80, 95}
\* the slider's value=90
DefaultThreshold == 90
Vencimentos == {NaT, 1}
Documentos == {9, 10}
Operacoes == {1, 2}

----------------------------------------------------------------------------
(* Generic helpers *)

Range(s) == {s[i] : i \in 1..Len(s)}

SeqsUpTo(S, n) == UNION {[1..k -> S] : k \in 1..n}

Min(S) == CHOOSE x \in S : \A y \in S : x <= y

RECURSIVE SortedSeq(_)
SortedSeq(S) == IF S = {} THEN <<>> ELSE <<Min(S)>> \o SortedSeq(S \ {Min(S)})

RECURSIVE Flatten(_)
Flatten(ss) == IF ss = <<>> THEN <<>> ELSE Head(ss) \o Flatten(Tail(ss))

----------------------------------------------------------------------------
(* Canonicalization of texts and amounts.  A text is a sequence of characters; *)
(* an amount is kept in hundredths (Valor_std * 100).                          *)

Digits == {"0", "1"}

DigitValue(c) == IF c = "1" THEN 1 ELSE 0

\* str.replace(a, b) for single characters
ReplaceChar(s, a, b) == [i \in 1..Len(s) |-> IF s[i] = a THEN b ELSE s[i]]

\* str.replace(a, "")
RemoveChar(s, a) == SelectSeq(s, LAMBDA c : c # a)

RECURSIVE LStrip(_)
LStrip(s) == IF s # <<>> /\ Head(s) = " " THEN LStrip(Tail(s)) ELSE s

RECURSIVE RStrip(_)
RStrip(s) ==
    IF s # <<>> /\ s[Len(s)] = " " THEN RStrip(SubSeq(s, 1, Len(s) - 1)) ELSE s

\* str.strip()
Strip(s) == RStrip(LStrip(s))

\* str.lower() on the letters used here
Lower(c) ==
    CASE c = "A" -> "a" [] c = "B" -> "b" [] c = "C" -> "c"
      [] c = "E" -> "e" [] c = "M" -> "m" [] c = "O" -> "o"
      [] OTHER -> c

\* standardize_data: astype(str).str.lower().str.strip()
standardize_data(s) == Strip([i \in 1..Len(s) |-> Lower(s[i])])

\* str.replace(r"r\$\s*", "", regex=True): every "r$" and the white space after it
RECURSIVE RemoveCurrency(_)
RemoveCurrency(s) ==
    IF s = <<>> THEN <<>>
    ELSE IF Len(s) >= 2 /\ s[1] = "r" /\ s[2] = "$"
         THEN RemoveCurrency(LStrip(SubSeq(s, 3, Len(s))))
         ELSE <<Head(s)>> \o RemoveCurrency(Tail(s))

\* whether float(s) succeeds: optional white space around digits with at most
\* one "." and at least one digit (no sign, exponent, "_", inf or nan can occur
\* with the characters used here)
IsFloatLiteral(s) ==
    LET t == Strip(s)
    IN /\ \A i \in 1..Len(t) : t[i] \in Digits \cup {"."}
       /\ Cardinality({i \in 1..Len(t) : t[i] = "."}) <= 1
       /\ \E i \in 1..Len(t) : t[i] \in Digits

RECURSIVE DigitsValue(_)
DigitsValue(ds) ==
    IF ds = <<>> THEN 0
    ELSE 10 * DigitsValue(SubSeq(ds, 1, Len(ds) - 1)) + DigitValue(ds[Len(ds)])

RECURSIVE Pow10(_)
Pow10(k) == IF k = 0 THEN 1 ELSE 10 * Pow10(k - 1)

\* float(s).round(2), in hundredths.  The digits used here never put a 5 in
\* the third decimal place, so no tie is rounded.
RoundedFloat(s) ==
    LET t == Strip(s)
        dot == IF \E i \in 1..Len(t) : t[i] = "."
               THEN CHOOSE i \in 1..Len(t) : t[i] = "."
               ELSE Len(t) + 1
        k == IF dot > Len(t) THEN 0 ELSE Len(t) - dot
        n == DigitsValue(RemoveChar(t, "."))
    IN IF k <= 2 THEN n * Pow10(2 - k)
       ELSE (n + Pow10(k - 2) \div 2) \div Pow10(k - 2)

\* df_contas_std["Valor"].str.replace(r"r\$\s*", "", regex=True).str.replace(",", ".")
LedgerValorText(s) == ReplaceChar(RemoveCurrency(s), ",", ".")

\* valor_match.group(1).strip().replace(".", "").replace(",", ".")
ReceiptValorText(s) == ReplaceChar(RemoveChar(Strip(s), "."), ",", ".")

\* float(valor_str), 0.0 when it raises; then .round(2)
ReceiptValor(s) ==
    IF IsFloatLiteral(ReceiptValorText(s)) THEN RoundedFloat(ReceiptValorText(s)) ELSE 0

----------------------------------------------------------------------------
(* Matcher: pd.merge(how="left") and fuzzy_merge *)

\* one row of df_conciliado: the ledger row's columns (p stands for Empresa,
\* Fornecedor, Valor of ledger row p), the receipt's (r stands for Arquivo PDF
\* and the other columns of receipt r of the pool; 0 when there is none)
Row(i, p, conta, r, comp, score) ==
    [idx |-> i, p |-> p, Codigo |-> conta.Codigo,
     DataVencimento |-> conta.DataVencimento, Valor_std |-> conta.Valor_std,
     r |-> r,
     NumeroDocumento |-> IF r = 0 THEN None ELSE comp.NumeroDocumento,
     DataOperacao |-> IF r = 0 THEN NaT ELSE comp.DataOperacao,
     FuzzyScore |-> score]

Reindex(rows) == [i \in 1..Len(rows) |-> [rows[i] EXCEPT !.idx = i]]

\* pd.merge(df_contas_std, df_comprovantes_std,
\*          on=["Empresa", "Fornecedor", "Valor_std"], how="left")
ExactKeyEqual(conta, comp) ==
    /\ conta.Empresa = comp.Empresa
    /\ conta.Fornecedor = comp.Fornecedor
    /\ conta.Valor_std = comp.Valor_std

\* the rows a left join gives ledger row p: one per receipt of equal key, in
\* pool order, or the ledger row alone with null receipt columns
ExactRowsFor(p, conta, comps) ==
    LET hits == SelectSeq([j \in 1..Len(comps) |-> j],
                    LAMBDA j : ExactKeyEqual(conta, comps[j]))
    IN IF hits = <<>>
       THEN <<Row(0, p, conta, 0, conta, None)>>
       ELSE [k \in 1..Len(hits) |-> Row(0, p, conta, hits[k], comps[hits[k]], None)]

MergeLeft(contas, comps) ==
    Reindex(Flatten([p \in 1..Len(contas) |-> ExactRowsFor(p, contas[p], comps)]))

\* token_set_ratio(a, b) as the library returned it: 100 for equal names, tbl[col] for
\* the two distinct names of column col
TokenSetRatio(a, b, col, tbl) == IF a = b THEN 100 ELSE tbl[col]

\* score = (score_empresa + score_fornecedor) / 2
Score(conta, comp, tbl) ==
    (TokenSetRatio(conta.Empresa, comp.Empresa, "Empresa", tbl)
       + TokenSetRatio(conta.Fornecedor, comp.Fornecedor, "Fornecedor", tbl)) \div 2

\* mutant: candidates taken from the whole pool, without the amount filter
CandidateAnyValor(conta, comp) == TRUE

\* df_comprovantes[df_comprovantes["Valor_std"] == conta["Valor_std"]]
Candidate(conta, comp) == comp.Valor_std = conta.Valor_std

\* mutant: the "if not found_match" branch appends nothing
NoMatchRowsDropped(p, conta) == <<>>

\* the row appended when candidates is empty or no candidate reaches the threshold
NoMatchRows(p, conta) == <<Row(0, p, conta, 0, conta, None)>>

FuzzyRowsFor(p, conta, comps, thr, tbl) ==
    LET hits == SelectSeq([j \in 1..Len(comps) |-> j],
                    LAMBDA j : /\ Candidate(conta, comps[j])
                               /\ Score(conta, comps[j], tbl) >= thr)
    IN IF hits = <<>>
       THEN NoMatchRows(p, conta)
       ELSE [k \in 1..Len(hits) |->
                Row(0, p, conta, hits[k], comps[hits[k]], Score(conta, comps[hits[k]], tbl))]

fuzzy_merge(contas, comps, thr, tbl) ==
    Reindex(Flatten([p \in 1..Len(contas) |-> FuzzyRowsFor(p, contas[p], comps, thr, tbl)]))

----------------------------------------------------------------------------
(* resolve_ambiguities *)

\* strftime("%d/%m/%Y") of a date, "N/A" when to_datetime/strftime raises (NaT)
DateStr(d) == IF d = NaT THEN <<"N/A">> ELSE <<"%d/%m/%Y", d>>

\* f"Doc: {doc} | Data Op: {op} | Data Ven: {ven}"
OptionStrCodigo(row) ==
    <<"Doc", row.NumeroDocumento, DateStr(row.DataOperacao), DateStr(row.DataVencimento)>>

\* f"Código: {codigo} | Data Ven: {ven} | Data Op: {op}"
OptionStrDoc(row) ==
    <<"Codigo", row.Codigo, DateStr(row.DataVencimento), DateStr(row.DataOperacao)>>

\* options[key] = idx on an insertion-ordered dict
DictPut(d, k, v) ==
    IF \E i \in 1..Len(d) : d[i].key = k
    THEN [i \in 1..Len(d) |-> IF d[i].key = k THEN [key |-> k, idx |-> v] ELSE d[i]]
    ELSE Append(d, [key |-> k, idx |-> v])

RECURSIVE BuildOptions(_, _)
BuildOptions(keys, ids) ==
    IF keys = <<>> THEN <<>>
    ELSE DictPut(BuildOptions(SubSeq(keys, 1, Len(keys) - 1), SubSeq(ids, 1, Len(ids) - 1)),
                 keys[Len(keys)], ids[Len(ids)])

OptionsCodigo(group) ==
    BuildOptions([i \in 1..Len(group) |-> OptionStrCodigo(group[i])],
                 [i \in 1..Len(group) |-> group[i].idx])

OptionsDoc(group) ==
    BuildOptions([i \in 1..Len(group) |-> OptionStrDoc(group[i].row)],
                 [i \in 1..Len(group) |-> group[i].ix])

\* st.selectbox(label, list(options.keys())): sel = 0 is a selectbox the user
\* never touched, which returns the option at index 0
Selectbox(options, sel) == IF sel = 0 THEN options[1].key ELSE options[sel].key

DictGet(options, k) == (CHOOSE i \in 1..Len(options) : options[i].key = k)

ChosenIdx(options, sel) == options[DictGet(options, Selectbox(options, sel))].idx

GroupByCodigo(df, c) == SelectSeq(df, LAMBDA row : row.Codigo = c)

\* mutant: the groups visited in descending key order
RECURSIVE SortedSeqDesc(_)
SortedSeqDesc(S) == IF S = {} THEN <<>> ELSE SortedSeqDesc(S \ {Min(S)}) \o <<Min(S)>>

GroupedCodigoDescending(df) == SortedSeqDesc({df[i].Codigo : i \in 1..Len(df)})

GroupedCodigo(df) == SortedSeq({df[i].Codigo : i \in 1..Len(df)})

\* pd.concat(resolved_rows, ignore_index=True)
Concat(rows) == [i \in 1..Len(rows) |-> [ix |-> i, row |-> rows[i]]]

\* mutant: duplicated() with its default keep="first", which leaves the first
\* occurrence of each document number unmarked
DuplicatedDocKeepFirst(dfr) ==
    SelectSeq(dfr, LAMBDA e :
        /\ e.row.NumeroDocumento # None
        /\ \E j \in 1..Len(dfr) :
              /\ dfr[j].ix < e.ix
              /\ dfr[j].row.NumeroDocumento = e.row.NumeroDocumento)

\* df[col.notna() & df.duplicated(subset=[col], keep=False)]
DuplicatedDoc(dfr) ==
    SelectSeq(dfr, LAMBDA e :
        /\ e.row.NumeroDocumento # None
        /\ \E j \in 1..Len(dfr) :
              /\ dfr[j].ix # e.ix
              /\ dfr[j].row.NumeroDocumento = e.row.NumeroDocumento)

GroupByDoc(dup, d) == SelectSeq(dup, LAMBDA e : e.row.NumeroDocumento = d)

GroupedDoc(dup) == SortedSeq({dup[i].row.NumeroDocumento : i \in 1..Len(dup)})

\* mutant: drop(group.index), which discards the chosen row with the others
DropWholeGroup(dfr, group, chosen_ix) ==
    SelectSeq(dfr, LAMBDA e : ~(e.ix \in {group[i].ix : i \in 1..Len(group)}))

\* df_resolved.drop(group.index.difference([chosen_idx]))
DropOthers(dfr, group, chosen_ix) ==
    SelectSeq(dfr, LAMBDA e :
        ~(e.ix \in ({group[i].ix : i \in 1..Len(group)} \ {chosen_ix})))

\* one iteration of "for codigo, group in grouped_codigo"
ResolveCodigoGroup ==
    /\ pc = "pass1"
    /\ codigo_todo # <<>>
    /\ LET codigo == Head(codigo_todo)
           group == GroupByCodigo(df_conciliado, codigo)
       IN IF Len(group) = 1
          THEN /\ resolved_rows' = Append(resolved_rows, group[1])
               /\ UNCHANGED decisions
          ELSE \E sel \in 0..Len(OptionsCodigo(group)) :
                 LET options == OptionsCodigo(group)
                     chosen_idx == ChosenIdx(options, sel)
                     kept == CHOOSE row \in Range(group) : row.idx = chosen_idx
                 IN /\ resolved_rows' = Append(resolved_rows, kept)
                    /\ decisions' = Append(decisions,
                           [pass |-> "codigo", key |-> codigo, sel |-> sel,
                            members |-> {group[i].idx : i \in 1..Len(group)},
                            offered |-> {options[i].idx : i \in 1..Len(options)},
                            kept |-> chosen_idx])
    /\ codigo_todo' = Tail(codigo_todo)
    /\ UNCHANGED <<pc, valor_text, valor_impresso, df_contas_std,
                   df_comprovantes, match_method, threshold, ratio, df_conciliado,
                   df_resolved, duplicated_doc, doc_todo, df_conciliado_final,
                   df_receipts_sem_conta, df_contas_sem_comprovante>>

\* pd.concat and the duplicated_doc mask, after the first loop; pd.concat of an
\* empty list raises ValueError
ConcatResolved ==
    /\ pc = "pass1"
    /\ codigo_todo = <<>>
    /\ IF resolved_rows = <<>>
       THEN /\ pc' = "failed"
            /\ UNCHANGED <<df_resolved, duplicated_doc, doc_todo>>
       ELSE /\ df_resolved' = Concat(resolved_rows)
            /\ duplicated_doc' = DuplicatedDoc(Concat(resolved_rows))
            /\ doc_todo' = GroupedDoc(DuplicatedDoc(Concat(resolved_rows)))
            /\ pc' = "pass2"
    /\ UNCHANGED <<valor_text, valor_impresso, df_contas_std,
                   df_comprovantes, match_method, threshold, ratio, df_conciliado,
                   codigo_todo, resolved_rows, decisions, df_conciliado_final,
                   df_receipts_sem_conta, df_contas_sem_comprovante>>

\* one iteration of "for doc, group in grouped_doc"
ResolveDocGroup ==
    /\ pc = "pass2"
    /\ doc_todo # <<>>
    /\ LET doc == Head(doc_todo)
           group == GroupByDoc(duplicated_doc, doc)
       IN IF Len(group) > 1
          THEN \E sel \in 0..Len(OptionsDoc(group)) :
                 LET options == OptionsDoc(group)
                     chosen_ix == ChosenIdx(options, sel)
                     ixToIdx(x) == (CHOOSE e \in Range(group) : e.ix = x).row.idx
                 IN /\ df_resolved' = DropOthers(df_resolved, group, chosen_ix)
                    /\ decisions' = Append(decisions,
                           [pass |-> "doc", key |-> doc, sel |-> sel,
                            members |-> {group[i].row.idx : i \in 1..Len(group)},
                            offered |-> {ixToIdx(options[i].idx) : i \in 1..Len(options)},
                            kept |-> ixToIdx(chosen_ix)])
          ELSE UNCHANGED <<df_resolved, decisions>>
    /\ doc_todo' = Tail(doc_todo)
    /\ UNCHANGED <<pc, valor_text, valor_impresso, df_contas_std,
                   df_comprovantes, match_method, threshold, ratio, df_conciliado,
                   codigo_todo, resolved_rows, duplicated_doc, df_conciliado_final,
                   df_receipts_sem_conta, df_contas_sem_comprovante>>

\* return df_resolved
ReturnResolved ==
    /\ pc = "pass2"
    /\ doc_todo = <<>>
    /\ df_conciliado_final' = [i \in 1..Len(df_resolved) |-> df_resolved[i].row]
    /\ pc' = "resolved"
    /\ UNCHANGED <<valor_text, valor_impresso, df_contas_std,
                   df_comprovantes, match_method, threshold, ratio, df_conciliado,
                   codigo_todo, resolved_rows, df_resolved, duplicated_doc, doc_todo,
                   decisions, df_receipts_sem_conta, df_contas_sem_comprovante>>

----------------------------------------------------------------------------
(* The script, from the method selectbox on *)

\* match_method == "Padrão"
ExactMerge ==
    /\ pc = "standardized"
    /\ match_method' = "Padrão"
    /\ df_conciliado' = MergeLeft(df_contas_std, df_comprovantes)
    /\ pc' = "matched"
    /\ UNCHANGED <<valor_text, valor_impresso, df_contas_std,
                   df_comprovantes, threshold, ratio, codigo_todo, resolved_rows,
                   df_resolved, duplicated_doc, doc_todo, decisions,
                   df_conciliado_final, df_receipts_sem_conta, df_contas_sem_comprovante>>

\* match_method in {"Fuzzy Wuzzy", "RapidFuzz"}, with the slider's threshold
FuzzyMerge(thresholds, tables) ==
    /\ pc = "standardized"
    /\ \E m \in {"Fuzzy Wuzzy", "RapidFuzz"}, thr \in thresholds, tbl \in tables :
          /\ match_method' = m
          /\ threshold' = thr
          /\ ratio' = tbl
          /\ df_conciliado' = fuzzy_merge(df_contas_std, df_comprovantes, thr, tbl)
    /\ pc' = "matched"
    /\ UNCHANGED <<valor_text, valor_impresso, df_contas_std,
                   df_comprovantes, codigo_todo, resolved_rows,
                   df_resolved, duplicated_doc, doc_todo, decisions,
                   df_conciliado_final, df_receipts_sem_conta, df_contas_sem_comprovante>>

\* df.duplicated(subset=["Código"], keep=False).any()
DuplicateMaskCodigo(df) ==
    \E i, j \in 1..Len(df) : i # j /\ df[i].Codigo = df[j].Codigo

\* (col.notna() & df.duplicated(subset=["Número do Documento"], keep=False)).any()
DuplicateMaskDoc(df) ==
    \E i, j \in 1..Len(df) :
        /\ i # j
        /\ df[i].NumeroDocumento # None
        /\ df[i].NumeroDocumento = df[j].NumeroDocumento

\* step 4: call resolve_ambiguities, or copy the table when nothing is ambiguous
Dispatch ==
    /\ pc = "matched"
    /\ IF DuplicateMaskCodigo(df_conciliado) \/ DuplicateMaskDoc(df_conciliado)
       THEN /\ pc' = "pass1"
            /\ codigo_todo' = GroupedCodigo(df_conciliado)
            /\ UNCHANGED df_conciliado_final
       ELSE /\ pc' = "resolved"
            /\ df_conciliado_final' = df_conciliado
            /\ UNCHANGED codigo_todo
    /\ resolved_rows' = <<>>
    /\ UNCHANGED <<valor_text, valor_impresso, df_contas_std,
                   df_comprovantes, match_method, threshold, ratio, df_conciliado,
                   df_resolved, duplicated_doc, doc_todo, decisions,
                   df_receipts_sem_conta, df_contas_sem_comprovante>>

\* linked_doc_numbers = df_conciliado_final["Número do Documento"].dropna().unique()
LinkedDocNumbers(final) ==
    {final[i].NumeroDocumento : i \in 1..Len(final)} \ {None}

\* mutant: receipts told apart by their row of the pool, not by document number
ReceiptsSemContaByRow(comps, final) ==
    SelectSeq([j \in 1..Len(comps) |-> j],
              LAMBDA j : ~(\E i \in 1..Len(final) : final[i].r = j))

\* df_comprovantes[~df_comprovantes["Número do Documento"].isin(linked_doc_numbers)]
ReceiptsSemConta(comps, final) ==
    SelectSeq([j \in 1..Len(comps) |-> j],
              LAMBDA j : ~(comps[j].NumeroDocumento \in LinkedDocNumbers(final)))

\* df_conciliado_final[df_conciliado_final["Número do Documento"].isna() | ...]
ContasSemComprovante(final) ==
    SelectSeq(final, LAMBDA row : row.NumeroDocumento = None)

\* steps 5 and 6: the two views derived from the reconciled table
Report ==
    /\ pc = "resolved"
    /\ df_contas_sem_comprovante' = ContasSemComprovante(df_conciliado_final)
    /\ df_receipts_sem_conta' = ReceiptsSemConta(df_comprovantes, df_conciliado_final)
    /\ pc' = "reported"
    /\ UNCHANGED <<valor_text, valor_impresso, df_contas_std,
                   df_comprovantes, match_method, threshold, ratio, df_conciliado,
                   codigo_todo, resolved_rows, df_resolved, duplicated_doc, doc_todo,
                   decisions, df_conciliado_final>>

----------------------------------------------------------------------------
(* resolve_ambiguities applied to any candidate table *)

CandidateRows ==
    [Codigo : Codigos, DataVencimento : Vencimentos,
     NumeroDocumento : {None}, DataOperacao : {NaT}]
    \cup
    [Codigo : Codigos, DataVencimento : Vencimentos,
     NumeroDocumento : Documentos, DataOperacao : Operacoes]

WithIdx(rows) ==
    [i \in 1..Len(rows) |->
        [idx |-> i, Codigo |-> rows[i].Codigo,
         DataVencimento |-> rows[i].DataVencimento,
         NumeroDocumento |-> rows[i].NumeroDocumento,
         DataOperacao |-> rows[i].DataOperacao]]

InitResolver ==
    /\ pc = "pass1"
    /\ valor_text = <<>>
    /\ valor_impresso = <<>>
    /\ df_contas_std = <<>>
    /\ df_comprovantes = <<>>
    /\ match_method = "none"
    /\ threshold = 0
    /\ ratio = 0
    /\ \E rows \in {<<>>} \cup SeqsUpTo(CandidateRows, MaxRows) :
          /\ df_conciliado = WithIdx(rows)
          /\ codigo_todo = GroupedCodigo(WithIdx(rows))
    /\ resolved_rows = <<>>
    /\ df_resolved = <<>>
    /\ duplicated_doc = <<>>
    /\ doc_todo = <<>>
    /\ decisions = <<>>
    /\ df_conciliado_final = <<>>
    /\ df_receipts_sem_conta = <<>>
    /\ df_contas_sem_comprovante = <<>>

NextResolver ==
    \/ ResolveCodigoGroup
    \/ ConcatResolved
    \/ ResolveDocGroup
    \/ ReturnResolved

SpecResolver == InitResolver /\ [][NextResolver]_vars

----------------------------------------------------------------------------
(* Loading of one receipt and one ledger row *)

\* extract_transactions and df_comprovantes_std: the receipt of ACME to bob,
\* document 9, printed with the amount valor_impresso
ExtractTransactions ==
    /\ pc = "uploaded"
    /\ df_comprovantes' =
          <<[Empresa |-> standardize_data(<<"A", "C", "M", "E">>),
             Fornecedor |-> standardize_data(<<"b", "o", "b">>),
             Valor_std |-> ReceiptValor(valor_impresso),
             DataOperacao |-> 1, NumeroDocumento |-> 9]>>
    /\ pc' = "extracted"
    /\ UNCHANGED <<valor_text, valor_impresso, df_contas_std, match_method,
                   threshold, ratio, df_conciliado, codigo_todo, resolved_rows,
                   df_resolved, duplicated_doc, doc_todo, decisions,
                   df_conciliado_final, df_receipts_sem_conta, df_contas_sem_comprovante>>

\* standardization of the ledger row {Acme, Bob, valor_text, X1}; astype(float)
\* raises ValueError on a text that is no number, which ends the run
StandardizeLedger ==
    /\ pc = "extracted"
    /\ IF IsFloatLiteral(LedgerValorText(valor_text))
       THEN /\ df_contas_std' =
                  <<[Empresa |-> standardize_data(<<"A", "c", "m", "e">>),
                     Fornecedor |-> standardize_data(<<"B", "o", "b">>),
                     Valor_std |-> RoundedFloat(LedgerValorText(valor_text)),
                     DataVencimento |-> 1, Codigo |-> 1]>>
            /\ pc' = "standardized"
       ELSE /\ pc' = "failed"
            /\ UNCHANGED df_contas_std
    /\ UNCHANGED <<valor_text, valor_impresso, df_comprovantes, match_method,
                   threshold, ratio, df_conciliado, codigo_todo, resolved_rows,
                   df_resolved, duplicated_doc, doc_todo, decisions,
                   df_conciliado_final, df_receipts_sem_conta, df_contas_sem_comprovante>>

CurrencyPrefixes == {<<>>, <<"R", "$", " ">>, <<"r", "$", " ">>, <<"r", "$">>}

\* a ledger cell and a receipt page that print the same amount text, the
\* ledger's with an optional currency prefix
InitValor ==
    /\ pc = "uploaded"
    /\ \E prefix \in CurrencyPrefixes,
          body \in SeqsUpTo(Digits \cup {".", ","}, MaxLen) :
          /\ valor_text = prefix \o body
          /\ valor_impresso = body
    /\ df_contas_std = <<>>
    /\ df_comprovantes = <<>>
    /\ match_method = "none"
    /\ threshold = 0
    /\ ratio = 0
    /\ df_conciliado = <<>>
    /\ codigo_todo = <<>>
    /\ resolved_rows = <<>>
    /\ df_resolved = <<>>
    /\ duplicated_doc = <<>>
    /\ doc_todo = <<>>
    /\ decisions = <<>>
    /\ df_conciliado_final = <<>>
    /\ df_receipts_sem_conta = <<>>
    /\ df_contas_sem_comprovante = <<>>

NextValor ==
    \/ ExtractTransactions
    \/ StandardizeLedger
    \/ ExactMerge

SpecValor == InitValor /\ [][NextValor]_vars

----------------------------------------------------------------------------
(* The Matcher applied to any ledger and receipt pool *)

RatioTables == [{"Empresa", "Fornecedor"} -> Scores]

Idle ==
    /\ valor_text = <<>>
    /\ valor_impresso = <<>>
    /\ match_method = "none"
    /\ threshold = 0
    /\ ratio = 0
    /\ df_conciliado = <<>>
    /\ codigo_todo = <<>>
    /\ resolved_rows = <<>>
    /\ df_resolved = <<>>
    /\ duplicated_doc = <<>>
    /\ doc_todo = <<>>
    /\ decisions = <<>>
    /\ df_conciliado_final = <<>>
    /\ df_receipts_sem_conta = <<>>
    /\ df_contas_sem_comprovante = <<>>

\* ledgers whose rows differ in name and amount; "Código" is the row number
InitMatcher ==
    /\ pc = "standardized"
    /\ \E cs \in SeqsUpTo([Empresa : Empresas, Valor_std : Valores], MaxPayables) :
          df_contas_std = [i \in 1..Len(cs) |->
              [Empresa |-> cs[i].Empresa, Fornecedor |-> "bob",
               Valor_std |-> cs[i].Valor_std, DataVencimento |-> 1, Codigo |-> i]]
    /\ \E rs \in SeqsUpTo([Empresa : Empresas, Fornecedor : Fornecedores,
                           Valor_std : Valores], MaxReceipts) :
          df_comprovantes = [j \in 1..Len(rs) |->
              [Empresa |-> rs[j].Empresa, Fornecedor |-> rs[j].Fornecedor,
               Valor_std |-> rs[j].Valor_std, DataOperacao |-> 1,
               NumeroDocumento |-> 8 + j]]
    /\ Idle

NextMatcher ==
    \/ ExactMerge
    \/ FuzzyMerge(Thresholds, RatioTables)

SpecMatcher == InitMatcher /\ [][NextMatcher]_vars

----------------------------------------------------------------------------
(* The whole run: Matcher, resolve_ambiguities, report *)

\* ledgers whose rows differ in amount ("Código" is the row number, unique as
\* the ledger is expected to keep it) and pools whose rows differ in amount,
\* document number and date; all names are equal, so the text comparison of
\* either strategy always succeeds and the amount decides the candidates
Init ==
    /\ pc = "standardized"
    /\ \E cs \in SeqsUpTo([Valor_std : Valores], MaxPayables) :
          df_contas_std = [i \in 1..Len(cs) |->
              [Empresa |-> "acme", Fornecedor |-> "bob",
               Valor_std |-> cs[i].Valor_std, DataVencimento |-> 1,
               Codigo |-> i]]
    /\ \E rs \in SeqsUpTo([Valor_std : Valores, NumeroDocumento : Documentos,
                           DataOperacao : Operacoes], MaxReceipts) :
          df_comprovantes = [j \in 1..Len(rs) |->
              [Empresa |-> "acme", Fornecedor |-> "bob",
               Valor_std |-> rs[j].Valor_std, DataOperacao |-> rs[j].DataOperacao,
               NumeroDocumento |-> rs[j].NumeroDocumento]]
    /\ Idle

Next ==
    \/ ExactMerge
    \/ FuzzyMerge({DefaultThreshold}, {[c \in {"Empresa", "Fornecedor"} |-> 90]})
    \/ Dispatch
    \/ ResolveCodigoGroup
    \/ ConcatResolved
    \/ ResolveDocGroup
    \/ ReturnResolved
    \/ Report

Spec == Init /\ [][Next]_vars

----------------------------------------------------------------------------
(* Properties of resolve_ambiguities *)

Indices(df) == {df[i].idx : i \in 1..Len(df)}

RowOf(df, x) == CHOOSE row \in Range(df) : row.idx = x

\* no "Código" group and no non-null "Número do Documento" group has two members
AlreadyResolved(df) ==
    \A i, j \in 1..Len(df) :
        i # j => /\ df[i].Codigo # df[j].Codigo
                 /\ (df[i].NumeroDocumento # None
                        => df[i].NumeroDocumento # df[j].NumeroDocumento)

\* C2: after resolve_ambiguities returns, no "Código" and no non-null
\* "Número do Documento" occurs in more than one surviving row.
ResolverPostcondition ==
    pc = "resolved" => AlreadyResolved(df_conciliado_final)

\* a run that returned after a decision in each pass
ResolverPostconditionWitness ==
    /\ pc = "resolved"
    /\ \E i, j \in 1..Len(decisions) :
          decisions[i].pass = "codigo" /\ decisions[j].pass = "doc"

\* C6 as stated: an already-resolved table comes back unchanged (same rows in the
\* same order) and no decision is requested.
ResolverIdempotentAsStated ==
    (pc = "resolved" /\ AlreadyResolved(df_conciliado))
        => /\ df_conciliado_final = df_conciliado
           /\ decisions = <<>>

\* C6 amended: an already-resolved table that is not empty comes back (the call
\* does not raise) with the same rows, field values unchanged, none added or
\* dropped, ordered by ascending "Código", and no decision is requested.
ResolverIdempotentUpToOrder ==
    /\ (pc = "failed" => df_conciliado = <<>>)
    /\ (pc = "resolved" /\ AlreadyResolved(df_conciliado))
        => /\ decisions = <<>>
           /\ Len(df_conciliado_final) = Len(df_conciliado)
           /\ Range(df_conciliado_final) = Range(df_conciliado)
           /\ \A i, j \in 1..Len(df_conciliado_final) :
                 i < j => df_conciliado_final[i].Codigo < df_conciliado_final[j].Codigo

\* an already-resolved table of several rows, not in "Código" order, was returned
ResolverIdempotentWitness ==
    /\ pc = "resolved"
    /\ AlreadyResolved(df_conciliado)
    /\ Len(df_conciliado) >= 2
    /\ df_conciliado[1].Codigo > df_conciliado[2].Codigo
    /\ \E i \in 1..Len(df_conciliado) : df_conciliado[i].NumeroDocumento = None

\* C7: a group for which no choice was supplied (sel = 0) is not resolved: when
\* no selectbox of the run was given a choice, every candidate row is still in
\* the table that is returned (stated for runs whose selectboxes listed every
\* member of their group).
NoSilentResolution ==
    ( /\ pc \in {"resolved", "reported"}
      /\ \A k \in 1..Len(decisions) :
            decisions[k].sel = 0 /\ decisions[k].offered = decisions[k].members )
        => Indices(df_conciliado_final) = Indices(df_conciliado)

\* C9: every member of an ambiguous group is offered as an option of its own,
\* and the row kept is the one the decision designates.
EveryMemberOffered ==
    \A k \in 1..Len(decisions) :
        /\ decisions[k].offered = decisions[k].members
        /\ decisions[k].kept \in decisions[k].members

\* C10: the returned rows are rows of the input with their field values; a row
\* is missing only if it lost a decision; a row whose "Código" is unique and
\* whose document number is null or not shared with another row left by the
\* first pass is returned; rows without a document number are never members of
\* a receipt-side group and never discarded by the second pass.
ResolverFrame ==
    pc = "resolved" =>
        /\ Range(df_conciliado_final) \subseteq Range(df_conciliado)
        /\ \A i, j \in 1..Len(df_conciliado_final) :
              i # j => df_conciliado_final[i].idx # df_conciliado_final[j].idx
        /\ \A x \in Indices(df_conciliado) \ Indices(df_conciliado_final) :
              \E k \in 1..Len(decisions) :
                  x \in decisions[k].members /\ decisions[k].kept # x
        /\ \A row \in Range(df_conciliado) :
              ( /\ \A other \in Range(df_conciliado) :
                      other.idx # row.idx => other.Codigo # row.Codigo
                /\ \/ row.NumeroDocumento = None
                   \/ \A other \in Range(resolved_rows) :
                         other.idx # row.idx
                            => other.NumeroDocumento # row.NumeroDocumento )
              => row \in Range(df_conciliado_final)
        /\ \A k \in 1..Len(decisions) :
              decisions[k].pass = "doc"
                 => \A x \in decisions[k].members :
                       RowOf(df_conciliado, x).NumeroDocumento # None
        /\ \A row \in Range(resolved_rows) :
              row.NumeroDocumento = None => row \in Range(df_conciliado_final)

\* a run with a decision in which two rows without a document number were
\* returned and some row was discarded
ResolverFrameWitness ==
    /\ pc = "resolved"
    /\ decisions # <<>>
    /\ Len(df_conciliado_final) < Len(df_conciliado)
    /\ \E i, j \in 1..Len(df_conciliado_final) :
          /\ i # j
          /\ df_conciliado_final[i].NumeroDocumento = None
          /\ df_conciliado_final[j].NumeroDocumento = None

----------------------------------------------------------------------------
(* Properties of the Matcher *)

RowsOfPayable(df, p) == {i \in 1..Len(df) : df[i].p = p}

\* the receipts of the pool that qualify for ledger row p under the strategy run
Qualifying(p) ==
    {j \in 1..Len(df_comprovantes) :
        LET conta == df_contas_std[p]
            comp == df_comprovantes[j]
        IN /\ comp.Valor_std = conta.Valor_std
           /\ IF match_method = "Padrão"
              THEN conta.Empresa = comp.Empresa /\ conta.Fornecedor = comp.Fornecedor
              ELSE (IF conta.Empresa = comp.Empresa THEN 100 ELSE ratio["Empresa"])
                    + (IF conta.Fornecedor = comp.Fornecedor THEN 100 ELSE ratio["Fornecedor"])
                       >= 2 * threshold}

\* C4: every row fuzzy_merge emits with a receipt pairs a ledger row and a
\* receipt of equal Valor_std, and carries the average of the two name
\* similarities, which is at least the threshold.
FuzzyCandidatesSound ==
    (pc = "matched" /\ match_method # "Padrão") =>
        \A i \in 1..Len(df_conciliado) :
            LET row == df_conciliado[i]
            IN row.r # 0 =>
                 LET conta == df_contas_std[row.p]
                     comp == df_comprovantes[row.r]
                 IN /\ conta.Valor_std = comp.Valor_std
                    /\ row.NumeroDocumento = comp.NumeroDocumento
                    /\ 2 * row.FuzzyScore =
                          (IF conta.Empresa = comp.Empresa THEN 100 ELSE ratio["Empresa"])
                          + (IF conta.Fornecedor = comp.Fornecedor THEN 100 ELSE ratio["Fornecedor"])
                    /\ row.FuzzyScore >= threshold

\* a fuzzy run that emitted a row for names that differ, and none for a
\* receipt of identical names whose amount differs
FuzzyCandidatesWitness ==
    /\ pc = "matched"
    /\ match_method # "Padrão"
    /\ \E i \in 1..Len(df_conciliado) :
          /\ df_conciliado[i].r # 0
          /\ df_conciliado[i].FuzzyScore < 100
    /\ \E p \in 1..Len(df_contas_std), j \in 1..Len(df_comprovantes) :
          /\ df_contas_std[p].Empresa = df_comprovantes[j].Empresa
          /\ df_contas_std[p].Fornecedor = df_comprovantes[j].Fornecedor
          /\ df_contas_std[p].Valor_std # df_comprovantes[j].Valor_std

\* C5: after the Matcher every ledger row has a row; one without a qualifying
\* receipt has exactly one row, without receipt; one with qualifying receipts
\* has one row per qualifying receipt and none without receipt.
MatcherOutput ==
    pc = "matched" =>
        \A p \in 1..Len(df_contas_std) :
            LET mine == RowsOfPayable(df_conciliado, p)
            IN /\ mine # {}
               /\ \A i \in mine : df_conciliado[i].Codigo = df_contas_std[p].Codigo
               /\ IF Qualifying(p) = {}
                  THEN /\ Cardinality(mine) = 1
                       /\ \A i \in mine : df_conciliado[i].r = 0
                                            /\ df_conciliado[i].NumeroDocumento = None
                  ELSE /\ Cardinality(mine) = Cardinality(Qualifying(p))
                       /\ {df_conciliado[i].r : i \in mine} = Qualifying(p)

\* a fuzzy run in which one ledger row got two receipts and another, with a
\* receipt of its amount in the pool, none
MatcherOutputWitness ==
    /\ pc = "matched"
    /\ match_method # "Padrão"
    /\ \E p \in 1..Len(df_contas_std) : Cardinality(Qualifying(p)) = 2
    /\ \E p \in 1..Len(df_contas_std) :
          /\ Qualifying(p) = {}
          /\ \E j \in 1..Len(df_comprovantes) :
                df_comprovantes[j].Valor_std = df_contas_std[p].Valor_std

----------------------------------------------------------------------------
(* Properties of the whole run *)

\* C1: every ledger row appears in exactly one row of the final reconciled table.
Coverage ==
    pc \in {"resolved", "reported"} =>
        \A p \in 1..Len(df_contas_std) :
            Cardinality(RowsOfPayable(df_conciliado_final, p)) = 1

\* the first-pass decisions that kept receipt a for a ledger row of which
\* another receipt b with the same document number was a candidate too
SharedDocumentChoices ==
    {<<k, a, b>> \in (1..Len(decisions)) \X (1..Len(df_comprovantes))
                       \X (1..Len(df_comprovantes)) :
        /\ decisions[k].pass = "codigo"
        /\ RowOf(df_conciliado, decisions[k].kept).r = a
        /\ a # b
        /\ df_comprovantes[a].NumeroDocumento = df_comprovantes[b].NumeroDocumento
        /\ \E x \in decisions[k].members : RowOf(df_conciliado, x).r = b}

\* C3 as stated: after the decision keeps receipt A the surviving set has exactly
\* one entry for the ledger row, and receipt B is listed among the receipts
\* without payable unless a surviving row of another ledger row claims it
\* (stated for decisions the user made among all the members of the group).
SharedDocumentAsStated ==
    pc = "reported" =>
        \A c \in SharedDocumentChoices :
            ( /\ decisions[c[1]].sel # 0
              /\ decisions[c[1]].offered = decisions[c[1]].members )
            => /\ Cardinality({i \in 1..Len(df_conciliado_final) :
                      df_conciliado_final[i].Codigo = decisions[c[1]].key}) = 1
               /\ (\A i \in 1..Len(df_conciliado_final) : df_conciliado_final[i].r # c[3])
                     => c[3] \in Range(df_receipts_sem_conta)

\* C3 amended: after the decision keeps receipt A the first pass leaves exactly
\* one entry for the ledger row (the final table at most one), the document
\* number shared by A and B stays linked in the final table, and receipt B is
\* therefore not listed among the receipts without payable.
SharedDocumentStaysLinked ==
    pc = "reported" =>
        \A c \in SharedDocumentChoices :
            /\ Cardinality({i \in 1..Len(resolved_rows) :
                   resolved_rows[i].Codigo = decisions[c[1]].key}) = 1
            /\ Cardinality({i \in 1..Len(df_conciliado_final) :
                   df_conciliado_final[i].Codigo = decisions[c[1]].key}) <= 1
            /\ \E i \in 1..Len(df_conciliado_final) :
                   df_conciliado_final[i].NumeroDocumento
                      = df_comprovantes[c[3]].NumeroDocumento
            /\ ~(c[3] \in Range(df_receipts_sem_conta))
            /\ ~(c[2] \in Range(df_receipts_sem_conta))

\* a reported run in which the user chose receipt A explicitly, no surviving
\* row claims receipt B, and a receipt of another document number is listed
SharedDocumentWitness ==
    /\ pc = "reported"
    /\ \E c \in SharedDocumentChoices :
          /\ decisions[c[1]].sel # 0
          /\ \A i \in 1..Len(df_conciliado_final) : df_conciliado_final[i].r # c[3]
          /\ \E i \in 1..Len(df_conciliado_final) : df_conciliado_final[i].r = c[2]

----------------------------------------------------------------------------
(* Properties of the ledger's amount canonicalization *)

\* digits in groups of three separated by ".", then "," and one or two decimals
LocaleGrouped(body) ==
    \E comma \in 1..Len(body) :
        /\ body[comma] = ","
        /\ Len(body) - comma \in {1, 2}
        /\ \A i \in (comma + 1)..Len(body) : body[i] \in Digits
        /\ \E first \in 1..3 :
              /\ first < comma
              /\ (comma - 1 - first) % 4 = 0
              /\ comma - 1 > first
              /\ \A i \in 1..(comma - 1) :
                    IF i > first /\ (i - first) % 4 = 1
                    THEN body[i] = "."
                    ELSE body[i] \in Digits

\* the amount such a text denotes, in hundredths
LocaleAmount(body) ==
    LET comma == CHOOSE i \in 1..Len(body) : body[i] = ","
        whole == DigitsValue(RemoveChar(SubSeq(body, 1, comma - 1), "."))
        cents == DigitsValue(SubSeq(body, comma + 1, Len(body)))
    IN 100 * whole + (IF Len(body) - comma = 1 THEN 10 * cents ELSE cents)

\* C8: a ledger "Valor" with "." thousands separators and a "," decimal
\* separator, with or without currency prefix, is canonicalized to the amount
\* it denotes, the run does not fail, and the row matches the receipt printed
\* with the same amount as one row with that receipt.
LedgerAmountCanonical ==
    LocaleGrouped(valor_impresso) =>
        /\ pc # "failed"
        /\ pc \in {"standardized", "matched"}
              => df_contas_std[1].Valor_std = LocaleAmount(valor_impresso)
        /\ pc = "matched"
              => Len(df_conciliado) = 1 /\ df_conciliado[1].r = 1

====
